---- MODULE Spec2Model ----
(***************************************************************************)
(* Bounce: the game component of src/src/components/game.tsx (the          *)
(* multi-ball, clamp-based variant, lines 1-318) as a state machine.       *)
(*                                                                         *)
(* Numbers.  Lengths are fixed-point integers, Unit units to the pixel,    *)
(* and every real-valued operation of the source (the division by the      *)
(* distance, the 1.15 speed-up, the rotation) rounds to the nearest unit.  *)
(* Ball angles are kept in half-degree codes: code 2k is the angle k       *)
(* degrees exactly and code 2k+1 any angle strictly between k and k+1      *)
(* degrees, so that every comparison of a ball angle with an integer       *)
(* number of degrees has the outcome it has in the source.  Paddle angles  *)
(* are integers of degrees, as the +-3 keyboard steps and the step-1       *)
(* sliders make them.                                                      *)
(*                                                                         *)
(* React.  A handler's queued state updates are committed, and the         *)
(* scheduling effect (lines 212-219) has replaced the pending animation    *)
(* frame callback by the one closing over the committed state, before the  *)
(* next handler runs: an action is a handler together with that commit.    *)
(* SpecLoop alone lifts this for the frames: there a frame queues its      *)
(* updates, the callback line 209 has requested may run before React has   *)
(* committed them, and the commit is a step of its own.                    *)
(* Inside gameLoop the names score, highScore, balls, arc1Angle and        *)
(* arc2Angle are the values of the render the callback closes over, that   *)
(* is, the unprimed variables.                                             *)
(*                                                                         *)
(* AnimatePresence (line 257) keeps a child that has left the tree, here   *)
(* the START or AGAIN overlay with its button, mounted until its exit      *)
(* animation (exit = opacity 0, lines 259 and 265) has completed.          *)
(***************************************************************************)
EXTENDS Integers, Sequences, FiniteSets, TLC

VARIABLES
  gameState,   \* 'idle' | 'playing' | 'gameOver'                 (line 39)
  score,       \*                                                  (line 40)
  highScore,   \*                                                  (line 41)
  balls,       \* sequence of [id, pos, vel]                       (line 42)
  arc1Angle,   \* left paddle centre, degrees                      (line 45)
  arc2Angle,   \* right paddle centre, signed degrees              (line 46)
  nextBallId,  \* nextBallId.current                               (line 51)
  isMobile,    \* useIsMobile()                                    (line 54)
  storage,     \* localStorage['bounceHighScore'], a digit string, <<>> when absent
  exiting,     \* the overlay startGame was clicked on is still mounted (line 257)
  raf,         \* an animation frame callback is requested: gameLoopRef (line 52)
  pending,     \* the state updates queued by frames and not yet committed
  ev,          \* what the last handler did (history, read by the properties only)
  inputs,      \* paddle inputs taken so far (bounded exploration only)
  ticks        \* frames run so far (bounded exploration only)

vars == <<gameState, score, highScore, balls, arc1Angle, arc2Angle,
          nextBallId, isMobile, storage, exiting, raf, pending, ev, inputs,
          ticks>>

----------------------------------------------------------------------------
(* Bounds of the exploration *)

Unit == 5           \* fixed-point units per pixel
MaxSessionTicks == 225  \* Spec: frames of one session
MaxExitTicks == 2   \* Spec: frames of a session run while the overlay exits
MaxInputs == 1      \* Spec: paddle inputs (slider changes, frames with keys held)
MaxTicks == 3       \* SpecPaddle: frames run
MaxDeepTicks == 540 \* SpecDeep: frames of the session
MaxGrazeTicks == 778 \* SpecGraze: frames of the session
Fine == 4           \* sub-units per unit at which the bounce arithmetic is re-run
PriorRecord == 12   \* a record left in localStorage by an earlier visit
MaxLoopTicks == 100 \* SpecLoop: frames of a session run on a committed state
MaxStaleFrames == 1 \* SpecLoop: frames run again before React has committed

----------------------------------------------------------------------------
(* Arithmetic *)

Max(a, b) == IF a >= b THEN a ELSE b
Min(a, b) == IF a <= b THEN a ELSE b

\* a / b rounded to the nearest integer (b > 0), halves upwards
RoundDiv(a, b) == (2 * a + b) \div (2 * b)

\* k degrees as a half-degree code
Deg(k) == 2 * k

----------------------------------------------------------------------------
(* Game constants and dimensions, lines 11-36 *)

BASE_GAME_SIZE == 500
ARC_LENGTH_DEGREES == 60
PADDLE_SPEED_DEGREES == 3

\* no speed-up: 1.0 * v
SPEED_INCREASE_ON_BOUNCE_none(v) == v

\* 1.15 * v
SPEED_INCREASE_ON_BOUNCE(v) == RoundDiv(115 * v, 100)

gameSize == BASE_GAME_SIZE * Unit
gameRadius == gameSize \div 2
ballRadius == (gameSize * 10) \div BASE_GAME_SIZE
arcThickness == (gameSize * 10) \div BASE_GAME_SIZE
initialBallSpeed == (gameSize * 3) \div BASE_GAME_SIZE
arcRadius == gameRadius - arcThickness \div 2

halfArc == ARC_LENGTH_DEGREES \div 2

----------------------------------------------------------------------------
(* localStorage strings: score.toString() and parseInt(s, 10) *)

Digits == <<"0", "1", "2", "3", "4", "5", "6", "7", "8", "9">>

RECURSIVE toString(_)
toString(n) ==
  IF n < 10 THEN <<Digits[n + 1]>>
  ELSE Append(toString(n \div 10), Digits[(n % 10) + 1])

DigitValue(c) == CHOOSE d \in 0..9 : Digits[d + 1] = c

RECURSIVE parseInt(_)
parseInt(s) ==
  IF Len(s) = 1 THEN DigitValue(s[1])
  ELSE 10 * parseInt(SubSeq(s, 1, Len(s) - 1)) + DigitValue(s[Len(s)])

\* getItem gives null for an absent key; null is falsy at line 73
NoItem == <<>>

StoredAtStartup == {NoItem, toString(PriorRecord)}

----------------------------------------------------------------------------
(* Math.atan2 in degrees, normalised to [0, 360), as a half-degree code *)

\* round(tan(k degrees) * 10^6), k = 1..45
TanTable ==
  <<17455, 34921, 52408, 69927, 87489, 105104, 122785, 140541, 158384,
    176327, 194380, 212557, 230868, 249328, 267949, 286745, 305731, 324920,
    344328, 363970, 383864, 404026, 424475, 445229, 466308, 487733, 509525,
    531709, 554309, 577350, 600861, 624869, 649408, 674509, 700208, 726543,
    753554, 781286, 809784, 839100, 869287, 900404, 932515, 965689, 1000000>>

\* the angle of (u, v), u >= v >= 0, u > 0: a code in 0..90
OctantCode(u, v) ==
  IF v = 0 THEN Deg(0)
  ELSE IF v = u THEN Deg(45)
  ELSE Deg(Cardinality({k \in 1..44 : v * 1000000 >= u * TanTable[k]})) + 1

\* the angle of (x, y), x >= 0, y >= 0, not both 0: a code in 0..180
QuadrantCode(x, y) ==
  IF x >= y THEN OctantCode(x, y) ELSE Deg(90) - OctantCode(y, x)

\* (radiansToDegrees(Math.atan2(y, x)) + 360) % 360, line 151
ballAngleDegrees(x, y) ==
  IF y >= 0
  THEN IF x >= 0 THEN QuadrantCode(x, y) ELSE Deg(180) - QuadrantCode(-x, y)
  ELSE IF x >= 0 THEN Deg(360) - QuadrantCode(x, -y)
       ELSE Deg(180) + QuadrantCode(-x, -y)

----------------------------------------------------------------------------
(* The random draws *)

\* Math.random() * 2 * Math.PI at line 91: the directions whose velocity
\* (cos * initialBallSpeed, sin * initialBallSpeed) is a lattice vector
Directions ==
  {d \in (-initialBallSpeed..initialBallSpeed) \X (-initialBallSpeed..initialBallSpeed) :
     d[1] * d[1] + d[2] * d[2] = initialBallSpeed * initialBallSpeed}

\* (Math.random() - 0.5) * degreesToRadians(15) at line 176: rotations of
\* rational cosine and sine c/q, s/q within +-7.5 degrees (0 and +-7.15)
Jitters ==
  {[c |-> 1, s |-> 0, q |-> 1],
   [c |-> 255, s |-> 32, q |-> 257],
   [c |-> 255, s |-> -32, q |-> 257]}

Keys == {"a", "d", "arrowleft", "arrowright"}

\* the key sets polled by a frame
KeyInputs == {{}, {"d"}, {"a"}, {"arrowright"}, {"arrowleft"}, {"a", "d"},
              {"d", "arrowleft"}}

\* the angles a slider change hands to handleArcMove
SliderAngles == {-100, 200, 239, 400}

----------------------------------------------------------------------------
(* History: what the handler that ran last was given and did *)

\* op: the handler; arg: its input; from, score0, high0, balls0, arcs0: the
\* state it ran in; bounces, miss: the flags of balls.map; saves: the strings
\* it handed to localStorage.setItem; threw: setItem threw; total: the bounces
\* of the session so far; failed: some setItem has thrown since mount
Event(op, arg, bounces, miss, saves, threw) ==
  [op |-> op, arg |-> arg, from |-> gameState, score0 |-> score,
   high0 |-> highScore, balls0 |-> Len(balls),
   arcs0 |-> <<arc1Angle, arc2Angle>>, bounces |-> bounces, miss |-> miss,
   saves |-> saves, threw |-> threw,
   total |-> IF op = "start" THEN 0 ELSE ev.total + bounces,
   failed |-> ev.failed \/ threw]

----------------------------------------------------------------------------
(* The scheduling effect, lines 212-219, run after a commit that has       *)
(* changed gameState or gameLoop (any of its dependencies, line 210)       *)

\* the effect requesting no frame
scheduleAfter_never(state) == FALSE

\* lines 213-215: a frame is requested for the new gameLoop in 'playing'
scheduleAfter(state) == state = "playing"

\* the updates are committed with gameState = state: the cleanup has
\* cancelled the callback gameLoopRef holds (line 217) and the effect has run
commit(state) ==
  /\ pending' = <<>>
  /\ raf' = scheduleAfter(state)

----------------------------------------------------------------------------
(* addNewBall, lines 90-101: setBalls(prev => [...prev, newBall]) *)

addNewBall(prev, id, dir) ==
  Append(prev, [id |-> id,
                pos |-> [x |-> 0, y |-> 0],
                vel |-> [dx |-> dir[1], dy |-> dir[2]]])

\* The START and AGAIN buttons are rendered in 'idle' and in 'gameOver'
\* (lines 258-273), and the one clicked stays mounted while its overlay exits
ButtonMounted == gameState \in {"idle", "gameOver"} \/ exiting

\* the exit animation of the overlay completes: AnimatePresence unmounts it
onExitComplete ==
  /\ exiting
  /\ exiting' = FALSE
  /\ ev' = Event("exitComplete", <<>>, 0, FALSE, <<>>, FALSE)
  /\ UNCHANGED <<gameState, score, highScore, balls, arc1Angle, arc2Angle,
                 nextBallId, isMobile, storage, raf, pending>>

\* startGame without setScore(0)
startGame_keepScore(dir) ==
  /\ ButtonMounted
  /\ arc1Angle' = 180
  /\ arc2Angle' = 0
  /\ balls' = addNewBall(<<>>, 0, dir)
  /\ nextBallId' = 0 + 1
  /\ gameState' = "playing"
  /\ exiting' = TRUE
  /\ ev' = Event("start", dir, 0, FALSE, <<>>, FALSE)
  /\ UNCHANGED <<score, highScore, isMobile, storage>>
  /\ commit("playing")

\* startGame without setBalls([])
startGame_keepBalls(dir) ==
  /\ ButtonMounted
  /\ score' = 0
  /\ arc1Angle' = 180
  /\ arc2Angle' = 0
  /\ balls' = addNewBall(balls, 0, dir)
  /\ nextBallId' = 0 + 1
  /\ gameState' = "playing"
  /\ exiting' = TRUE
  /\ ev' = Event("start", dir, 0, FALSE, <<>>, FALSE)
  /\ UNCHANGED <<highScore, isMobile, storage>>
  /\ commit("playing")

(* startGame, lines 103-111, called by the START and AGAIN buttons *)
startGame(dir) ==
  /\ ButtonMounted
  /\ score' = 0
  /\ arc1Angle' = 180
  /\ arc2Angle' = 0
  /\ balls' = addNewBall(<<>>, 0, dir)
  /\ nextBallId' = 0 + 1
  /\ gameState' = "playing"
  /\ exiting' = TRUE
  /\ ev' = Event("start", dir, 0, FALSE, <<>>, FALSE)
  /\ UNCHANGED <<highScore, isMobile, storage>>
  /\ commit("playing")

----------------------------------------------------------------------------
(* handleArcMove, lines 113-124: the paddle angles after the call *)

\* handleArcMove clamping the left paddle from below only
handleArcMove_noUpper(angles, angle, arc) ==
  IF arc = "arc1"
  THEN LET clampedAngle == Max(90 + halfArc, angle)
       IN  [angles EXCEPT !.arc1 = clampedAngle]
  ELSE LET normalizedAngle == IF angle > 270 THEN angle - 360 ELSE angle
           clampedAngle == Max(-90 + halfArc, Min(90 - halfArc, normalizedAngle))
       IN  [angles EXCEPT !.arc2 = clampedAngle]

\* handleArcMove clamping the right paddle to the half circle, not to the
\* half circle less the paddle's half length
handleArcMove_noHalfArc(angles, angle, arc) ==
  IF arc = "arc1"
  THEN LET clampedAngle == Max(90 + halfArc, Min(270 - halfArc, angle))
       IN  [angles EXCEPT !.arc1 = clampedAngle]
  ELSE LET normalizedAngle == IF angle > 270 THEN angle - 360 ELSE angle
           clampedAngle == Max(-90, Min(90, normalizedAngle))
       IN  [angles EXCEPT !.arc2 = clampedAngle]

handleArcMove(angles, angle, arc) ==
  IF arc = "arc1"
  THEN LET clampedAngle == Max(90 + halfArc, Min(270 - halfArc, angle))
       IN  [angles EXCEPT !.arc1 = clampedAngle]
  ELSE LET normalizedAngle == IF angle > 270 THEN angle - 360 ELSE angle
           clampedAngle == Max(-90 + halfArc, Min(90 - halfArc, normalizedAngle))
       IN  [angles EXCEPT !.arc2 = clampedAngle]

(* The sliders, lines 289-308: rendered when isMobile and 'playing' *)
onValueChange(angle, arc) ==
  /\ isMobile
  /\ gameState = "playing"
  /\ LET a == handleArcMove([arc1 |-> arc1Angle, arc2 |-> arc2Angle], angle, arc)
     IN  arc1Angle' = a.arc1 /\ arc2Angle' = a.arc2
  /\ ev' = Event("slide", <<angle, arc>>, 0, FALSE, <<>>, FALSE)
  /\ UNCHANGED <<gameState, score, highScore, balls, nextBallId, isMobile, storage,
                 exiting>>
  /\ commit(gameState)

(* useIsMobile, line 54: the viewport crosses the mobile breakpoint *)
useIsMobile ==
  /\ isMobile' = ~isMobile
  /\ ev' = Event("resize", ~isMobile, 0, FALSE, <<>>, FALSE)
  /\ UNCHANGED <<gameState, score, highScore, balls, arc1Angle, arc2Angle,
                 nextBallId, storage, exiting>>
  /\ commit(gameState)

----------------------------------------------------------------------------
(* gameLoop, lines 126-210 *)

\* the key polled first decides: d and a together move the paddle by +3
arc1Movement_dWins(keys) ==
  IF "d" \in keys THEN PADDLE_SPEED_DEGREES
  ELSE IF "a" \in keys THEN -PADDLE_SPEED_DEGREES ELSE 0

arc1Movement(keys) ==
  (IF "d" \in keys THEN PADDLE_SPEED_DEGREES ELSE 0)
    - (IF "a" \in keys THEN PADDLE_SPEED_DEGREES ELSE 0)

arc2Movement(keys) ==
  (IF "arrowright" \in keys THEN PADDLE_SPEED_DEGREES ELSE 0)
    - (IF "arrowleft" \in keys THEN PADDLE_SPEED_DEGREES ELSE 0)

\* lines 129-139: the paddle angles the frame's keyboard controls set
keyboardControls(keys) ==
  LET a0 == [arc1 |-> arc1Angle, arc2 |-> arc2Angle]
      a1 == IF "d" \in keys \/ "a" \in keys
            THEN handleArcMove(a0, arc1Angle + arc1Movement(keys), "arc1")
            ELSE a0
      a2 == IF "arrowright" \in keys \/ "arrowleft" \in keys
            THEN handleArcMove(a1, arc2Angle + arc2Movement(keys), "arc2")
            ELSE a1
  IN  IF ~isMobile THEN a2 ELSE a0

\* lines 153-156
isHittingArc1(angle) ==
  angle >= Deg(arc1Angle - halfArc) /\ angle <= Deg(arc1Angle + halfArc)

\* lines 158-163
isHittingArc2(angle) ==
  LET normalizedAngle == IF angle > Deg(270) THEN angle - Deg(360) ELSE angle
  IN  normalizedAngle >= Deg(arc2Angle - halfArc)
        /\ normalizedAngle <= Deg(arc2Angle + halfArc)

\* lines 168-171: vel - 2 * dot * normal, with normal = newPos / distFromCenter,
\* so that 2 * dot * normal = 2 * (vel . newPos) * newPos / distFromCenter^2
reflect(vel, newPos) ==
  LET d2 == newPos.x * newPos.x + newPos.y * newPos.y
      vp == vel.dx * newPos.x + vel.dy * newPos.y
  IN  [dx |-> vel.dx - RoundDiv(2 * vp * newPos.x, d2),
       dy |-> vel.dy - RoundDiv(2 * vp * newPos.y, d2)]

\* lines 176-180: the rotation by randomAngle
rotate(vel, jit) ==
  [dx |-> RoundDiv(vel.dx * jit.c - vel.dy * jit.s, jit.q),
   dy |-> RoundDiv(vel.dx * jit.s + vel.dy * jit.c, jit.q)]

\* lines 147-192: one ball's callback of balls.map, gameOver not yet set
stepBall(ball, jit) ==
  LET newPos == [x |-> ball.pos.x + ball.vel.dx, y |-> ball.pos.y + ball.vel.dy]
      distSq == newPos.x * newPos.x + newPos.y * newPos.y
      limit == arcRadius - ballRadius
  IN  IF distSq > limit * limit
      THEN LET angle == ballAngleDegrees(newPos.x, newPos.y)
           IN  IF isHittingArc1(angle) \/ isHittingArc2(angle)
               THEN LET newVel == reflect(ball.vel, newPos)
                        fast == [dx |-> SPEED_INCREASE_ON_BOUNCE(newVel.dx),
                                 dy |-> SPEED_INCREASE_ON_BOUNCE(newVel.dy)]
                    IN  [kind |-> "bounce",
                         ball |-> [ball EXCEPT !.pos = newPos,
                                               !.vel = rotate(fast, jit)]]
               ELSE [kind |-> "miss", ball |-> ball]
      ELSE [kind |-> "continue", ball |-> [ball EXCEPT !.pos = newPos]]

\* lines 141-193: balls.map, in order, with the flags it sets on the way
RECURSIVE mapBalls(_, _, _)
mapBalls(bs, jit, acc) ==
  LET i == Len(acc.updatedBalls) + 1
  IN  IF i > Len(bs) THEN acc
      ELSE IF acc.gameOver
      THEN mapBalls(bs, jit, [acc EXCEPT !.updatedBalls = Append(@, bs[i])])
      ELSE LET r == stepBall(bs[i], jit[i])
           IN  mapBalls(bs, jit,
                 [gameOver |-> r.kind = "miss",
                  bouncesThisFrame |->
                    acc.bouncesThisFrame + (IF r.kind = "bounce" THEN 1 ELSE 0),
                  updatedBalls |-> Append(acc.updatedBalls, r.ball)])

\* setScore(bouncesThisFrame): the count of the frame, not added to the score
scoreAfter_overwrite(prev, bouncesThisFrame) ==
  IF bouncesThisFrame > 0 THEN bouncesThisFrame ELSE prev

\* lines 195-197: setScore(prev => prev + bouncesThisFrame)
scoreAfter(prev, bouncesThisFrame) ==
  IF bouncesThisFrame > 0 THEN prev + bouncesThisFrame ELSE prev

\* no test: every session end is taken for a record
isNewRecord_always == TRUE

\* score >= highScore
isNewRecord_orEqual == score >= highScore

\* line 201: the test that guards setHighScore and the write
isNewRecord == score > highScore

\* a miss takes the session back to the title screen
stateAfter_idle(gameOver) == IF gameOver THEN "idle" ELSE gameState

\* setGameState('gameOver') left out
stateAfter_never(gameOver) == gameState

\* lines 199-207: setGameState('gameOver') or setBalls(updatedBalls)
stateAfter(gameOver) == IF gameOver THEN "gameOver" ELSE gameState

\* setBalls(updatedBalls) left out
ballsAfter_stale(gameOver, updatedBalls) == balls

ballsAfter(gameOver, updatedBalls) == IF gameOver THEN balls ELSE updatedBalls

\* the write first: a throwing setItem skips setHighScore
highScoreAfter_writeFirst(gameOver, throws) ==
  IF gameOver /\ isNewRecord /\ ~throws THEN score ELSE highScore

\* lines 201-203: setHighScore(score) comes before the write, so that a
\* throwing setItem leaves it queued
highScoreAfter(gameOver, throws) ==
  IF gameOver /\ isNewRecord THEN score ELSE highScore

\* the write of the high score the frame found, not of the new one
setItemCalls_stale(gameOver) ==
  IF gameOver /\ isNewRecord THEN <<toString(highScore)>> ELSE <<>>

\* line 203: the strings handed to localStorage.setItem by the frame
setItemCalls(gameOver) ==
  IF gameOver /\ isNewRecord THEN <<toString(score)>> ELSE <<>>

\* gameLoop without the return of line 127
gameLoop_noReturn(keys, jit, throws) ==
  LET angles == keyboardControls(keys)
      r == mapBalls(balls, jit, [gameOver |-> FALSE, bouncesThisFrame |-> 0,
                                 updatedBalls |-> <<>>])
      calls == setItemCalls(r.gameOver)
  IN  /\ arc1Angle' = angles.arc1
      /\ arc2Angle' = angles.arc2
      /\ score' = scoreAfter(score, r.bouncesThisFrame)
      /\ gameState' = stateAfter(r.gameOver)
      /\ highScore' = highScoreAfter(r.gameOver, throws)
      /\ storage' = IF calls # <<>> /\ ~throws THEN calls[Len(calls)] ELSE storage
      /\ balls' = ballsAfter(r.gameOver, r.updatedBalls)
      /\ ev' = Event("tick", keys, r.bouncesThisFrame, r.gameOver, calls,
                     calls # <<>> /\ throws)
      /\ UNCHANGED <<nextBallId, isMobile, exiting>>
      /\ commit(stateAfter(r.gameOver))

(* One call of gameLoop with the keys then held, the jitter drawn for each *)
(* ball, and whether localStorage.setItem throws.  Called in a state other *)
(* than 'playing' it returns at line 127: history op "return".             *)
gameLoop(keys, jit, throws) ==
  IF gameState # "playing"
  THEN /\ ev' = Event("return", keys, 0, FALSE, <<>>, FALSE)
       /\ UNCHANGED <<gameState, score, highScore, balls, arc1Angle, arc2Angle,
                      nextBallId, isMobile, storage, exiting, raf, pending>>
  ELSE LET angles == keyboardControls(keys)
           r == mapBalls(balls, jit, [gameOver |-> FALSE, bouncesThisFrame |-> 0,
                                      updatedBalls |-> <<>>])
           calls == setItemCalls(r.gameOver)
       IN  /\ arc1Angle' = angles.arc1
           /\ arc2Angle' = angles.arc2
           /\ score' = scoreAfter(score, r.bouncesThisFrame)
           /\ gameState' = stateAfter(r.gameOver)
           /\ highScore' = highScoreAfter(r.gameOver, throws)
           /\ storage' = IF calls # <<>> /\ ~throws THEN calls[Len(calls)] ELSE storage
           /\ balls' = ballsAfter(r.gameOver, r.updatedBalls)
           /\ ev' = Event("tick", keys, r.bouncesThisFrame, r.gameOver, calls,
                          calls # <<>> /\ throws)
           /\ UNCHANGED <<nextBallId, isMobile, exiting>>
           /\ commit(stateAfter(r.gameOver))

----------------------------------------------------------------------------
(* The state after mount: useState initial values (lines 39-51) and the    *)
(* load of the high score (lines 70-74)                                    *)

Init ==
  /\ gameState = "idle"
  /\ score = 0
  /\ balls = <<>>
  /\ arc1Angle = 180
  /\ arc2Angle = 0
  /\ nextBallId = 0
  /\ isMobile \in BOOLEAN
  /\ storage \in StoredAtStartup
  /\ exiting = FALSE
  /\ raf = FALSE
  /\ pending = <<>>
  /\ highScore = IF storage # NoItem THEN parseInt(storage) ELSE 0
  /\ ev = [op |-> "mount", arg |-> storage, from |-> "idle", score0 |-> 0,
           high0 |-> 0, balls0 |-> 0, arcs0 |-> <<180, 0>>, bounces |-> 0,
           miss |-> FALSE, saves |-> <<>>, threw |-> FALSE, total |-> 0,
           failed |-> FALSE]
  /\ inputs = 0
  /\ ticks = 0

\* the exploration bounds count the calls of gameLoop that run a frame
Running == gameState = "playing"

\* a frame in which the keyboard controls run with a key held
KeysHeld(keys) == ~isMobile /\ keys # {}

NoFlags == [gameOver |-> FALSE, bouncesThisFrame |-> 0, updatedBalls |-> <<>>]

\* One jitter draw for each distinct result of balls.map: the draws that make
\* no difference to the frame (no ball bounces) are explored once
JitterDraws ==
  LET all == [1..Len(balls) -> Jitters]
      results == {mapBalls(balls, j, NoFlags) : j \in all}
  IN  {CHOOSE j \in all : mapBalls(balls, j, NoFlags) = r : r \in results}

\* setItem can throw only in a frame that calls it
ThrowDraws(jit) ==
  IF setItemCalls(mapBalls(balls, jit, NoFlags).gameOver) # <<>>
  THEN BOOLEAN ELSE {FALSE}

(* Spec: sessions of at most MaxSessionTicks frames, the first MaxExitTicks *)
(* at most with the overlay still exiting, with at most MaxInputs paddle   *)
(* inputs in all                                                           *)
Start ==
  \E dir \in Directions :
    startGame(dir) /\ ticks' = 0 /\ UNCHANGED inputs

Tick ==
  \E keys \in (IF isMobile THEN {{}} ELSE KeyInputs), jit \in JitterDraws :
    \E throws \in ThrowDraws(jit) :
      /\ Running => ticks < MaxSessionTicks
      /\ Running /\ exiting => ticks < MaxExitTicks
      /\ Running /\ KeysHeld(keys) => inputs < MaxInputs
      /\ gameLoop(keys, jit, throws)
      /\ inputs' = inputs + (IF Running /\ KeysHeld(keys) THEN 1 ELSE 0)
      /\ ticks' = ticks + (IF Running THEN 1 ELSE 0)

Slide ==
  \E angle \in SliderAngles, arc \in {"arc1", "arc2"} :
    /\ inputs < MaxInputs
    /\ onValueChange(angle, arc)
    /\ inputs' = inputs + 1
    /\ UNCHANGED ticks

Exit == onExitComplete /\ UNCHANGED <<inputs, ticks>>

Next == Start \/ Tick \/ Slide \/ Exit

Spec == Init /\ [][Next]_vars

(* SpecPaddle: any paddle input, at most MaxTicks frames in all *)
InitPaddle == Init /\ storage = NoItem

StartP == startGame(<<initialBallSpeed, 0>>) /\ UNCHANGED <<inputs, ticks>>

TickP ==
  \E keys \in KeyInputs, jit \in JitterDraws :
    \E throws \in ThrowDraws(jit) :
      /\ Running => ticks < MaxTicks
      /\ gameLoop(keys, jit, throws)
      /\ ticks' = ticks + (IF Running THEN 1 ELSE 0)
      /\ UNCHANGED inputs

SlideP ==
  \E angle \in SliderAngles, arc \in {"arc1", "arc2"} :
    onValueChange(angle, arc) /\ UNCHANGED <<inputs, ticks>>

ResizeP == useIsMobile /\ UNCHANGED <<inputs, ticks>>

NextPaddle == StartP \/ TickP \/ SlideP \/ ResizeP \/ Exit

SpecPaddle == InitPaddle /\ [][NextPaddle]_vars

(* SpecDeep: one session of at most MaxDeepTicks frames on a desktop with  *)
(* no key held                                                             *)
InitDeep == Init /\ ~isMobile /\ storage = NoItem

StartD ==
  \E dir \in Directions :
    gameState = "idle" /\ startGame(dir) /\ UNCHANGED <<inputs, ticks>>

TickD ==
  \E jit \in JitterDraws :
    \E throws \in ThrowDraws(jit) :
      /\ Running => ticks < MaxDeepTicks
      /\ gameLoop({}, jit, throws)
      /\ ticks' = ticks + (IF Running THEN 1 ELSE 0)
      /\ UNCHANGED inputs

NextDeep == StartD \/ TickD \/ Exit

SpecDeep == InitDeep /\ [][NextDeep]_vars

----------------------------------------------------------------------------
(* Properties *)

\* the balls of the current state whose step of balls.map is a miss, and
\* those whose step is a bounce (the jitter plays no part in the kind of a
\* step)
NoJitter == [c |-> 1, s |-> 0, q |-> 1]
Missing == {i \in DOMAIN balls : stepBall(balls[i], NoJitter).kind = "miss"}
Bouncing == {i \in DOMAIN balls : stepBall(balls[i], NoJitter).kind = "bounce"}

\* the bounces of a frame: balls.map leaves the balls after a miss alone
BouncesOfFrame == Cardinality({i \in Bouncing : \A j \in Missing : i < j})

\* C1: the score never decreases in a frame, or any step other than
\* startGame, taken while playing, and is 0 right after every step from idle
\* or gameOver to playing.
C1_ScoreMonotoneAndReset ==
  [][/\ gameState = "playing" /\ ev'.op # "start" => score' >= score
     /\ gameState # "playing" /\ gameState' = "playing" => score' = 0]_vars

\* a restart has reset a score that was not 0
C1_Witness ==
  /\ ev.op = "start" /\ ev.from = "gameOver" /\ ev.score0 > 0
  /\ score = 0 /\ gameState = "playing"

\* C2: a step from playing to gameOver leaves highScore the larger of the
\* high score before it and the session's final score; no step decreases
\* highScore.
C2_HighScoreIsMax ==
  [][/\ gameState = "playing" /\ gameState' = "gameOver"
          => highScore' = Max(highScore, score')
     /\ highScore' >= highScore]_vars

\* a session has ended on a new record, and one has ended below the record
C2_Witness ==
  /\ ev.op = "tick" /\ gameState = "gameOver"
  /\ ev.high0 > 0 /\ score < ev.high0 /\ highScore = ev.high0
  /\ parseInt(storage) = highScore /\ highScore < PriorRecord

C4_StartResets ==
  ev.op = "start" =>
    /\ gameState = "playing"
    /\ score = 0
    /\ Len(balls) = 1
    /\ balls[1].pos = [x |-> 0, y |-> 0]
    /\ balls[1].vel.dx * balls[1].vel.dx + balls[1].vel.dy * balls[1].vel.dy
         = initialBallSpeed * initialBallSpeed
    /\ arc1Angle = 180
    /\ arc2Angle = 0

\* a restart from gameOver with a ball, a score and a moved paddle left over
C4_Witness ==
  /\ ev.op = "start" /\ ev.from = "gameOver"
  /\ ev.balls0 > 0 /\ ev.score0 > 0 /\ ev.arcs0 # <<180, 0>>

\* C5: the left paddle angle is in [90 + halfArc, 270 - halfArc] = [120, 240]
\* in every state.
C5_LeftPaddleRange ==
  /\ arc1Angle >= 90 + halfArc /\ arc1Angle <= 270 - halfArc
  /\ arc1Angle \in 120..240

\* a keyboard step of +3 from 239 has been clamped to 240
C5_Witness ==
  /\ ev.op = "tick" /\ "d" \in ev.arg /\ "a" \notin ev.arg
  /\ ev.arcs0[1] = 239 /\ arc1Angle = 240

\* C6: the right paddle angle, a signed angle, is in
\* [-(90 - halfArc), 90 - halfArc] = [-60, 60] in every state.
C6_RightPaddleRange ==
  /\ arc2Angle >= -(90 - halfArc) /\ arc2Angle <= 90 - halfArc
  /\ arc2Angle \in -60..60

\* a keyboard step of -3 at -60, below the 0/360 seam, has been clamped
C6_Witness ==
  /\ ev.op = "tick" /\ "arrowleft" \in ev.arg /\ "arrowright" \notin ev.arg
  /\ ~isMobile /\ ev.arcs0[2] = -60 /\ arc2Angle = -60

\* the number of bounces between two ball spawns (the e.g. of the spec)
spawnThreshold == 5

\* C7: while playing, after N bounces in the session the number of live
\* balls is 1 + floor(N / spawnThreshold).
C7_BallCountFollowsBounces ==
  gameState = "playing" => Len(balls) = 1 + (ev.total \div spawnThreshold)

\* C8: a frame adds to the score exactly the number of balls that bounced
\* in it (none: the score is unchanged), and in every session the score is
\* the number of bounces since startGame.
C8_ScoreCountsBounces ==
  /\ [][ev'.op = "tick" => score' = score + BouncesOfFrame]_vars
  /\ [](gameState # "idle" => score = ev.total)

\* the second bounce of a session has been counted
C8_Witness ==
  ev.op = "tick" /\ ev.bounces = 1 /\ ev.score0 = 1 /\ score = 2

\* C9: localStorage.setItem is called only by a frame that ends the session
\* on a final score above the high score it found, once, with the new high
\* score; such a frame does call it; a handler that does not call it leaves
\* the stored value alone.
C9_SaveOnlyOnRecord ==
  /\ [](ev.saves # <<>> =>
          /\ ev.op = "tick" /\ ev.from = "playing" /\ gameState = "gameOver"
          /\ score > ev.high0
          /\ Len(ev.saves) = 1
          /\ parseInt(ev.saves[1]) = highScore
          /\ highScore = score
          /\ ~ev.threw => storage = ev.saves[1])
  /\ [](ev.op = "tick" /\ gameState = "gameOver" /\ score > ev.high0
          => Len(ev.saves) = 1)
  /\ [][ev'.saves = <<>> \/ ev'.threw => storage' = storage]_vars

\* a record has been written
C9_Witness ==
  /\ ev.op = "tick" /\ gameState = "gameOver" /\ ev.saves = <<toString(score)>>
  /\ ~ev.threw /\ storage = toString(score) /\ score > 0

\* C10: a frame whose write throws leaves the state gameOver, the high score
\* the new record and the score as it was; startGame then starts a session,
\* and frames run in it.
C10_FailedWriteHarmless ==
  [][/\ ev'.threw =>
          /\ gameState' = "gameOver"
          /\ highScore' = score /\ highScore' > highScore
          /\ score' = score
          /\ balls' = balls
          /\ storage' = storage
     /\ ev.threw /\ ev'.op = "start" =>
          gameState' = "playing" /\ score' = 0 /\ highScore' = highScore]_vars

\* a frame has run in a session started after a write that threw: the record
\* is in memory and not in localStorage
C10_Witness ==
  /\ ev.op = "tick" /\ ev.from = "playing" /\ gameState = "playing"
  /\ highScore > 0 /\ storage = NoItem

\* C11: in idle and in gameOver a call of gameLoop, whatever keys are held,
\* leaves the paddle angles, the balls, the score and the high score as they
\* are, and so does every handler other than startGame; only startGame
\* leaves these states.
C11_InertOutsidePlaying ==
  [][/\ gameState \in {"idle", "gameOver"} /\ ev'.op # "start" =>
          UNCHANGED <<arc1Angle, arc2Angle, balls, score, highScore, gameState>>
     /\ gameState \in {"idle", "gameOver"} /\ gameState' # gameState =>
          ev'.op = "start"]_vars

\* gameLoop has been called in gameOver with a key held, on a desktop, the
\* missed ball still in balls
C11_Witness ==
  /\ ev.op = "return" /\ ev.from = "gameOver" /\ gameState = "gameOver"
  /\ ~isMobile /\ "d" \in ev.arg /\ balls # <<>>

\* C12: in every state with gameState = gameOver there is no ball left in
\* balls.
C12_NoBallsAtGameOver ==
  gameState = "gameOver" => balls = <<>>

\* the length of a vector, rounded down
Norm(dx, dy) ==
  CHOOSE r \in 0..(Max(dx, -dx) + Max(dy, -dy)) :
    r * r <= dx * dx + dy * dy /\ (r + 1) * (r + 1) > dx * dx + dy * dy

Abs(a) == Max(a, -a)

NewPos(ball) == [x |-> ball.pos.x + ball.vel.dx, y |-> ball.pos.y + ball.vel.dy]

\* lines 173-174 on both components
Faster(vel) == [dx |-> SPEED_INCREASE_ON_BOUNCE(vel.dx),
                dy |-> SPEED_INCREASE_ON_BOUNCE(vel.dy)]

\* The bounce of a ball, re-run on its velocity in sub-units (Fine to the
\* unit): each of the three operations rounds a component by at most half a
\* sub-unit, that is the vector by less than 1, and Norm rounds down by less
\* than 1.
\*   reflection keeps the length, and negates the component along newPos;
\*   the speed-up multiplies the length by 1.15 (in hundredths: 100 |F| =
\*   115 |R|, up to 100 * 1 for the rounding and 100 + 115 for the Norms);
\*   the rotation keeps the length, for every jitter.
BounceLaw(ball) ==
  LET V == [dx |-> Fine * ball.vel.dx, dy |-> Fine * ball.vel.dy]
      p == NewPos(ball)
      R == reflect(V, p)
      F == Faster(R)
  IN  /\ Abs(Norm(R.dx, R.dy) - Norm(V.dx, V.dy)) <= 2
      /\ Abs((R.dx * p.x + R.dy * p.y) + (V.dx * p.x + V.dy * p.y))
           <= Norm(p.x, p.y) + 1
      /\ Abs(100 * Norm(F.dx, F.dy) - 115 * Norm(R.dx, R.dy)) <= 100 + 100 + 115
      /\ \A jit \in Jitters :
           Abs(Norm(rotate(F, jit).dx, rotate(F, jit).dy) - Norm(F.dx, F.dy)) <= 2

\* initialBallSpeed * 1.15^k in hundredths of a unit, and the rounding that k
\* bounces in units can have added up to: 3 for the three roundings of a
\* bounce, on top of 1.15 times what there was
RECURSIVE SpeedAfter(_)
SpeedAfter(k) ==
  IF k = 0 THEN 100 * initialBallSpeed ELSE RoundDiv(115 * SpeedAfter(k - 1), 100)

RECURSIVE RoundingAfter(_)
RoundingAfter(k) ==
  IF k = 0 THEN 0 ELSE RoundDiv(115 * RoundingAfter(k - 1), 100) + 300

\* C13: a frame changes the velocity of a ball only when the ball bounces;
\* the bounce is reflection, then the speed-up, then the rotation, and
\* (BounceLaw) reflection negates the normal component and keeps the speed,
\* the speed-up multiplies it by 1.15 and the rotation keeps it; the ball of
\* a session that has bounced k times moves at initialBallSpeed * 1.15^k, up
\* to the rounding of the fixed-point arithmetic.
C13_SpeedGrowsPerBounce ==
  /\ [][ev'.op = "tick" /\ gameState' = "playing" =>
          \A i \in DOMAIN balls :
            /\ balls'[i].id = balls[i].id
            /\ i \notin Bouncing => balls'[i].vel = balls[i].vel
            /\ i \in Bouncing =>
                 /\ \E jit \in Jitters :
                      balls'[i].vel =
                        rotate(Faster(reflect(balls[i].vel, NewPos(balls[i]))), jit)
                 /\ BounceLaw(balls[i])]_vars
  /\ [](gameState = "playing" =>
          \A i \in DOMAIN balls :
            Abs(100 * Norm(balls[i].vel.dx, balls[i].vel.dy) - SpeedAfter(ev.total))
              <= RoundingAfter(ev.total) + 100)

\* a ball has bounced for the third time, off the normal (the reflection
\* turned it), with a jitter that turned it again
C13_Witness ==
  /\ ev.op = "tick" /\ ev.bounces = 1 /\ ev.total = 3 /\ gameState = "playing"
  /\ balls[1].vel.dx # 0 /\ balls[1].vel.dy # 0
  /\ balls[1].pos.y # 0

\* signedDelta(a, b) of the specification: the smallest signed difference
\* between a ball angle a (a half-degree code) and a paddle angle b (degrees),
\* as a half-degree code in [-360, 360)
signedDelta(a, b) == ((a - Deg(b) + Deg(180)) % Deg(360)) - Deg(180)

\* the balls whose next step takes them past the boundary (line 150)
Crossing ==
  {i \in DOMAIN balls :
     LET p == NewPos(balls[i])
     IN  p.x * p.x + p.y * p.y
           > (arcRadius - ballRadius) * (arcRadius - ballRadius)}

\* C14: for a ball crossing the boundary while playing, the hit test of the
\* frame (isHittingArc1 or isHittingArc2) succeeds exactly when the ball
\* angle is within halfArc of the centre of one of the paddles, the
\* difference taken across the 0/360 seam.
C14_HitTestIsSignedDelta ==
  gameState = "playing" =>
    \A i \in Crossing :
      LET angle == ballAngleDegrees(NewPos(balls[i]).x, NewPos(balls[i]).y)
      IN  (isHittingArc1(angle) \/ isHittingArc2(angle))
            <=> \/ Abs(signedDelta(angle, arc1Angle)) <= Deg(halfArc)
                \/ Abs(signedDelta(angle, arc2Angle)) <= Deg(halfArc)

\* the angles handed to handleArcMove for the right paddle by the handler
\* that ran last: the slider's value, or the paddle angle plus the keyboard
\* movement of the frame
RequestedArc2 ==
  IF ev.op = "slide" /\ ev.arg[2] = "arc2" THEN {ev.arg[1]}
  ELSE IF ev.op = "tick" /\ ~isMobile
            /\ ("arrowright" \in ev.arg \/ "arrowleft" \in ev.arg)
       THEN {ev.arcs0[2] + arc2Movement(ev.arg)}
       ELSE {}

----------------------------------------------------------------------------
(* SpecGraze: one session on a touch device of a player who keeps the ball *)
(* in play: before a frame that takes the ball past the boundary off the   *)
(* paddles, the slider of the paddle on the ball's side is taken to the    *)
(* slider value nearest to the ball angle.  Every bounce draws the same    *)
(* jitter, so that the ball's path turns one way, bounce after bounce.     *)

OneWay == [c |-> 255, s |-> 32, q |-> 257]

AngleOf(i) == ballAngleDegrees(NewPos(balls[i]).x, NewPos(balls[i]).y)

Saved(i) == isHittingArc1(AngleOf(i)) \/ isHittingArc2(AngleOf(i))

InitGraze == Init /\ isMobile /\ storage = NoItem

StartG ==
  /\ gameState = "idle"
  /\ startGame(<<initialBallSpeed, 0>>)
  /\ UNCHANGED <<inputs, ticks>>

TrackG ==
  /\ \E i \in Crossing :
       /\ ~Saved(i)
       /\ LET a == AngleOf(i) \div 2
          IN  IF a >= 90 /\ a < 270
              THEN onValueChange(Max(90 + halfArc, Min(270 - halfArc, a)), "arc1")
              ELSE onValueChange(Max(-90 + halfArc, Min(90 - halfArc,
                                   IF a >= 270 THEN a - 360 ELSE a)), "arc2")
  /\ UNCHANGED <<inputs, ticks>>

TickG ==
  /\ Running
  /\ ticks < MaxGrazeTicks
  /\ \A i \in Crossing : Saved(i)
  /\ gameLoop({}, [i \in 1..Len(balls) |-> OneWay], FALSE)
  /\ ticks' = ticks + 1
  /\ UNCHANGED inputs

NextGraze == StartG \/ TrackG \/ TickG \/ Exit

SpecGraze == InitGraze /\ [][NextGraze]_vars

\* C16: after a frame run while playing every ball is within
\* arcRadius - ballRadius of the centre, and a ball that bounced in the frame
\* is not taken past the boundary again by the frame that follows.
C16_BallsInsideLimit ==
  ev.op = "tick" /\ gameState = "playing" =>
    /\ \A i \in DOMAIN balls :
         balls[i].pos.x * balls[i].pos.x + balls[i].pos.y * balls[i].pos.y
           <= (arcRadius - ballRadius) * (arcRadius - ballRadius)
    /\ ev.bounces > 0 => Crossing = {}

\* C17: a frame moves every ball whose new position is within
\* arcRadius - ballRadius of the centre to that position and leaves its
\* velocity and id alone; when that is so of every ball, the frame leaves
\* the score, the high score, the state and the stored record alone.  A
\* ball at the centre is such a ball.
C17_ContinueStep ==
  [][gameState = "playing" /\ ev'.op = "tick" =>
       /\ \A i \in DOMAIN balls :
            /\ balls[i].pos = [x |-> 0, y |-> 0] => i \notin Crossing
            /\ i \notin Crossing =>
                 balls'[i] = [id |-> balls[i].id, pos |-> NewPos(balls[i]),
                              vel |-> balls[i].vel]
       /\ Crossing = {} =>
            /\ Len(balls') = Len(balls)
            /\ UNCHANGED <<score, highScore, gameState, storage>>]_vars

\* the first frame of a session has moved the ball off the centre
C17_Witness ==
  /\ ev.op = "tick" /\ ev.from = "playing" /\ ev.bounces = 0 /\ ~ev.miss
  /\ gameState = "playing" /\ ticks = 1
  /\ balls[1].pos = [x |-> balls[1].vel.dx, y |-> balls[1].vel.dy]

\* the step in {-1, 0, +1} that the keys held ask of a paddle: +1 for its
\* forward key, -1 for its backward key, 0 for both or neither; the frame
\* polls the keyboard on a non-mobile layout only (line 130)
KeyStep(keys, forward, backward) ==
  IF isMobile THEN 0
  ELSE (IF forward \in keys THEN 1 ELSE 0) - (IF backward \in keys THEN 1 ELSE 0)

\* C18: a frame run while playing leaves each paddle at its angle plus
\* step * PADDLE_SPEED_DEGREES, clamped to the paddle's range, step being
\* the paddle's own key step: no paddle moves by more than 3 degrees, a
\* paddle with both of its keys held does not move, and the keys of one
\* paddle do not move the other.
C18_KeyboardStep ==
  [][gameState = "playing" /\ ev'.op = "tick" =>
       LET keys == ev'.arg
           step1 == KeyStep(keys, "d", "a")
           step2 == KeyStep(keys, "arrowright", "arrowleft")
       IN  /\ arc1Angle' = Max(90 + halfArc,
                              Min(270 - halfArc, arc1Angle + step1 * PADDLE_SPEED_DEGREES))
           /\ arc2Angle' = Max(-(90 - halfArc),
                              Min(90 - halfArc, arc2Angle + step2 * PADDLE_SPEED_DEGREES))
           /\ Abs(arc1Angle' - arc1Angle) <= 3 /\ Abs(arc2Angle' - arc2Angle) <= 3
           /\ {"a", "d"} \subseteq keys => arc1Angle' = arc1Angle
           /\ {"arrowleft", "arrowright"} \subseteq keys => arc2Angle' = arc2Angle
           /\ keys \subseteq {"a", "d"} => arc2Angle' = arc2Angle
           /\ keys \subseteq {"arrowleft", "arrowright"} => arc1Angle' = arc1Angle]_vars

\* on a desktop a frame with both keys of the left paddle held has left the
\* paddle where an earlier frame had moved it
C18_Witness ==
  /\ ev.op = "tick" /\ ev.from = "playing" /\ ~isMobile
  /\ ev.arg = {"a", "d"}
  /\ arc1Angle = ev.arcs0[1] /\ arc1Angle # 180

\* C19: the state after mount is idle, and a step that changes gameState
\* takes it from idle to playing, from playing to gameOver or from gameOver
\* to playing.
C19_StateEdges ==
  /\ [](ev.op = "mount" => gameState = "idle")
  /\ [][gameState' # gameState =>
          <<gameState, gameState'>> \in {<<"idle", "playing">>,
                                        <<"playing", "gameOver">>,
                                        <<"gameOver", "playing">>}]_vars

\* the three edges have been taken: a second session is being played
C19_Witness ==
  /\ gameState = "playing" /\ ev.op = "tick" /\ ev.total > 0
  /\ highScore > 0 /\ storage = NoItem

\* C20: startGame runs in idle and in gameOver only: no startGame runs
\* while playing, where it would reset the score, replace the balls and put
\* the paddles back at 180 and 0.
C20_StartOnlyWhenStopped ==
  ev.op = "start" => ev.from \in {"idle", "gameOver"}

\* C21: as long as no setItem has thrown, a value held in localStorage is
\* the high score in memory (it parses to highScore and is its decimal
\* string), from the load at mount on; every step that changes highScore
\* hands that very value to setItem.
C21_StorageIsHighScore ==
  /\ [](storage # NoItem /\ ~ev.failed =>
          parseInt(storage) = highScore /\ storage = toString(highScore))
  /\ [][highScore' # highScore => ev'.saves = <<toString(highScore')>>]_vars

\* a first record has been written: localStorage, empty at mount, holds the
\* high score in memory
C21_Witness ==
  /\ ev.op = "tick" /\ ev.saves # <<>> /\ ~ev.failed /\ ev.high0 = 0
  /\ storage = toString(highScore) /\ highScore < PriorRecord

----------------------------------------------------------------------------
(* SpecLoop: the animation frame loop of one desktop player who holds no   *)
(* key, the frames and the commits of React as separate steps              *)

\* setScore(prev => prev + bouncesThisFrame), line 196, of each queued frame
\* in turn
RECURSIVE queuedScore(_, _)
queuedScore(prev, queue) ==
  IF queue = <<>> THEN prev
  ELSE queuedScore(scoreAfter(prev, Head(queue).bounces), Tail(queue))

(* The callback requestAnimationFrame was given runs: gameLoop, lines      *)
(* 126-210, on the render it closes over.  Its set calls are queued, the   *)
(* write to localStorage is made at once, and line 209 requests the next   *)
(* frame for the same closure unless setItem has thrown before.            *)
animationFrame(keys, jit, throws) ==
  LET angles == keyboardControls(keys)
      r == mapBalls(balls, jit, NoFlags)
      calls == setItemCalls(r.gameOver)
      threw == calls # <<>> /\ throws
  IN  /\ raf
      /\ gameState = "playing"
      /\ pending' = Append(pending,
                      [arc1 |-> angles.arc1, arc2 |-> angles.arc2,
                       bounces |-> r.bouncesThisFrame,
                       state |-> stateAfter(r.gameOver),
                       high |-> highScoreAfter(r.gameOver, throws),
                       balls |-> ballsAfter(r.gameOver, r.updatedBalls)])
      /\ storage' = IF calls # <<>> /\ ~throws THEN calls[Len(calls)] ELSE storage
      /\ raf' = ~threw
      /\ ev' = Event(IF pending = <<>> THEN "frame" ELSE "staleFrame", keys,
                     r.bouncesThisFrame, r.gameOver, calls, threw)
      /\ UNCHANGED <<gameState, score, highScore, balls, arc1Angle, arc2Angle,
                     nextBallId, isMobile, exiting>>

(* React renders and commits the queued updates, and the scheduling effect *)
(* runs, lines 212-219                                                     *)
reactCommit ==
  /\ pending # <<>>
  /\ LET last == pending[Len(pending)]
     IN  /\ arc1Angle' = last.arc1
         /\ arc2Angle' = last.arc2
         /\ score' = queuedScore(score, pending)
         /\ gameState' = last.state
         /\ highScore' = last.high
         /\ balls' = last.balls
         /\ commit(last.state)
  /\ ev' = Event("commit", Len(pending), 0, FALSE, <<>>, FALSE)
  /\ UNCHANGED <<nextBallId, isMobile, storage, exiting>>

InitLoop == Init /\ ~isMobile /\ storage = NoItem

StartL ==
  \E dir \in Directions :
    /\ gameState # "playing"
    /\ startGame(dir)
    /\ ticks' = 0
    /\ UNCHANGED inputs

FrameL ==
  \E jit \in JitterDraws :
    \E throws \in ThrowDraws(jit) :
      /\ pending = <<>> => ticks < MaxLoopTicks
      /\ Len(pending) <= MaxStaleFrames
      /\ animationFrame({}, jit, throws)
      /\ ticks' = ticks + (IF pending = <<>> THEN 1 ELSE 0)
      /\ UNCHANGED inputs

CommitL == reactCommit /\ UNCHANGED <<inputs, ticks>>

NextLoop == StartL \/ FrameL \/ CommitL \/ Exit

\* the browser runs a requested animation frame callback, and React's
\* scheduler a queued render
SpecLoop ==
  /\ InitLoop
  /\ [][NextLoop]_vars
  /\ WF_vars(FrameL)
  /\ WF_vars(CommitL)

\* the session goes on: the state is 'playing' and is left so by what the
\* frames have queued
GoesOn ==
  /\ gameState = "playing"
  /\ pending # <<>> => pending[Len(pending)].state = "playing"

\* C22: while playing the loop does not stall: from every state in which the
\* session goes on, a further frame is eventually run on the committed state
\* (ticks counts these frames of the session, so that the next one changes
\* its parity), and the score it sees counts every bounce before it.  A
\* requested frame closes over a 'playing' render, and in gameOver no frame
\* is requested and no update is queued: only startGame changes the session
\* then.
C22_LoopNeverStalls ==
  /\ \A odd \in {0, 1} :
       (GoesOn /\ ticks < MaxLoopTicks /\ ticks % 2 = odd)
         ~> (ev.op = "frame" /\ ticks % 2 = 1 - odd)
  /\ [](raf \/ pending # <<>> => gameState = "playing")
  /\ [](ev.op = "frame" => score = ev.total - ev.bounces)
  /\ [][gameState = "gameOver" /\ ev'.op # "start" =>
          UNCHANGED <<score, highScore, balls, arc1Angle, arc2Angle, gameState,
                      storage>>]_vars

\* a frame has run on the balls, moved and sped up, that the bounce frame
\* before it queued
C22_Witness ==
  /\ ev.op = "frame" /\ gameState = "playing" /\ ticks > 1
  /\ score = 1 /\ Len(pending) = 1 /\ pending[1].bounces = 0

====
